---- MODULE Spec2Model ----
(***************************************************************************)
(* Model of src/main.py: the Streamlit script that converts an uploaded    *)
(* image to grayscale, runs CLAHE -> K-Means -> blend, bundles the four    *)
(* artifacts in a ZIP and offers each of them for download.                *)
(*                                                                         *)
(* Three specifications share the variables:                               *)
(*   Spec        one run of the script body (lines 137-226)                *)
(*   SpecFn      enhance_image_kmeans / blend_images applied to bounded    *)
(*               buffers with bounded arguments                            *)
(*   SpecResize  resize_image applied to bounded shapes and max_size       *)
(***************************************************************************)
EXTENDS Integers, Sequences, FiniteSets, TLC

VARIABLES pc, uploaded_file, filename, gray_image, img_array, processed,
          clustered, enhanced, blended, images_dict, zip_file, zi,
          downloads, shown, error, stages, args, resized

vars == <<pc, uploaded_file, filename, gray_image, img_array, processed,
          clustered, enhanced, blended, images_dict, zip_file, zi,
          downloads, shown, error, stages, args, resized>>

\* Python's None: for the names bound to arrays, files and dicts, and for the
\* names bound to strings
None == [none |-> TRUE]

NoneStr == "None"

(***************************************************************************)
(* Bounds of the model.                                                    *)
(***************************************************************************)
\* largest number of pixels of a buffer handed to the functions in SpecFn
MaxPixels == 4
\* largest height, width and max_size tried on resize_image in SpecResize
MaxDim == 6

(***************************************************************************)
(* Arithmetic helpers.  A rational is a pair <<num, den>> with den > 0:    *)
(* cluster centres are means and the blend is a weighted sum, both kept    *)
(* exact here where the code uses float64 / float32.                       *)
(***************************************************************************)
Abs(x) == IF x < 0 THEN -x ELSE x

Max2(a, b) == IF a >= b THEN a ELSE b

\* Python's int() on a quotient n/d, d > 0: truncation toward zero
TruncDiv(n, d) == IF n >= 0 THEN n \div d ELSE -((-n) \div d)

RLess(a, b) == a[1] * b[2] < b[1] * a[2]

REq(a, b) == a[1] * b[2] = b[1] * a[2]

RECURSIVE SumSeq(_)
SumSeq(s) == IF s = <<>> THEN 0 ELSE Head(s) + SumSeq(Tail(s))

Range(s) == {s[i] : i \in DOMAIN s}

\* a 2-D uint8 numpy array: shape (h, w) and the row-major samples
Buffer(h, w, px) == [shape |-> <<h, w>>, px |-> px]

NPixels(buf) == buf.shape[1] * buf.shape[2]

(***************************************************************************)
(* cv2.normalize(v, None, 0, 255, cv2.NORM_MINMAX).astype(np.uint8)        *)
(* (lines 76, 83): every sample v goes to (v - min) * 255 / (max - min),   *)
(* the cast truncating the fraction; when max = min OpenCV takes the scale *)
(* 0 and every sample becomes 0.                                           *)
(***************************************************************************)
RMinOf(vals) == CHOOSE v \in Range(vals) : \A u \in Range(vals) : ~RLess(u, v)

RMaxOf(vals) == CHOOSE v \in Range(vals) : \A u \in Range(vals) : ~RLess(v, u)

normalize_minmax(vals) ==
    LET lo == RMinOf(vals)
        hi == RMaxOf(vals)
    IN  [i \in DOMAIN vals |->
           IF REq(lo, hi) THEN 0
           ELSE (255 * (vals[i][1] * lo[2] - lo[1] * vals[i][2]) * hi[2])
                  \div (vals[i][2] * (hi[1] * lo[2] - lo[1] * hi[2]))]

(***************************************************************************)
(* sklearn KMeans(n_clusters, random_state=42).fit on the 1-D samples X    *)
(* (lines 70-74).  The k-means++ seeding draws data points: the first one  *)
(* anywhere, each later one with probability proportional to its squared   *)
(* distance to the seeds drawn so far, so a value already seeded is drawn  *)
(* again only when every value is seeded (and then it is sample 0).  The   *)
(* random stream is not modelled: the seeds are any sequence the seeding   *)
(* can draw.  Lloyd's iterations follow: label = index of the nearest      *)
(* centre (argmin, lowest index on a tie), centre = mean of its samples,   *)
(* until the labels repeat or max_iter is reached.  A cluster left without *)
(* samples keeps its centre, which lies on a data value.                   *)
(***************************************************************************)
max_iter == 300

RECURSIVE SeedsFrom(_, _, _)
SeedsFrom(X, k, sofar) ==
    IF Len(sofar) = k THEN {sofar}
    ELSE LET fresh == Range(X) \ Range(sofar)
             draw  == IF sofar = <<>> THEN Range(X)
                      ELSE IF fresh # {} THEN fresh ELSE {X[1]}
         IN  UNION {SeedsFrom(X, k, Append(sofar, v)) : v \in draw}

KMeansSeeds(X, k) == SeedsFrom(X, k, <<>>)

\* index of the centre nearest to sample x; np.argmin takes the first minimum
Nearest(x, C) ==
    LET d(j) == <<Abs(x * C[j][2] - C[j][1]), C[j][2]>>
    IN  CHOOSE j \in DOMAIN C :
          \A k \in DOMAIN C :
             /\ ~RLess(d(k), d(j))
             /\ (REq(d(k), d(j)) => j <= k)

Labels(X, C) == [i \in DOMAIN X |-> Nearest(X[i], C)]

Means(X, C, L) ==
    [j \in DOMAIN C |->
       LET members == {i \in DOMAIN X : L[i] = j}
           picked  == [i \in DOMAIN X |-> IF i \in members THEN X[i] ELSE 0]
       IN  IF members = {} THEN C[j]
           ELSE <<SumSeq(picked), Cardinality(members)>>]

RECURSIVE Lloyd(_, _, _, _)
Lloyd(X, C, labels_old, it) ==
    LET L  == Labels(X, C)
        Cn == Means(X, C, L)
    IN  IF L = labels_old \/ it >= max_iter
        THEN [cluster_centers_ |-> Cn, labels_ |-> Labels(X, Cn)]
        ELSE Lloyd(X, Cn, L, it + 1)

KMeansFit(X, seeds) ==
    Lloyd(X, [j \in DOMAIN seeds |-> <<seeds[j], 1>>], <<>>, 1)

(***************************************************************************)
(* enhance_image_kmeans (lines 69-76).  KMeans raises ValueError when the  *)
(* image has fewer samples than n_clusters.                                *)
(***************************************************************************)
\* mutant: fewer distinct samples than clusters is taken for an error too
KMeansRaises_distinct(image, n_clusters) ==
    Cardinality(Range(image.px)) < n_clusters

KMeansRaises(image, n_clusters) == NPixels(image) < n_clusters

\* mutant: the pixels are not replaced by their centres
segmented_pixels_identity(image, fit) ==
    [i \in DOMAIN image.px |-> <<image.px[i], 1>>]

\* centers[labels].reshape(image.shape)
segmented_pixels(image, fit) ==
    [i \in DOMAIN image.px |-> fit.cluster_centers_[fit.labels_[i]]]

enhance_image_kmeans(image, n_clusters, seeds) ==
    LET fit == KMeansFit(image.px, seeds)
    IN  Buffer(image.shape[1], image.shape[2],
               normalize_minmax(segmented_pixels(image, fit)))

(***************************************************************************)
(* blend_images (lines 79-83).  alpha is given in tenths (the default 0.7  *)
(* is 7), so the pre-rescale sample alpha*c + (1-alpha)*o is the rational  *)
(* (alpha*c + (10-alpha)*o) / 10.                                          *)
(***************************************************************************)
AlphaDen == 10

\* mutant: the two weights are exchanged
blended_of_swapped(original, clustered_, alpha) ==
    [i \in DOMAIN original.px |->
       <<alpha * original.px[i] + (AlphaDen - alpha) * clustered_.px[i], AlphaDen>>]

blended_of(original, clustered_, alpha) ==
    [i \in DOMAIN original.px |->
       <<alpha * clustered_.px[i] + (AlphaDen - alpha) * original.px[i], AlphaDen>>]

blend_images(original, clustered_, alpha) ==
    Buffer(original.shape[1], original.shape[2],
           normalize_minmax(blended_of(original, clustered_, alpha)))

(***************************************************************************)
(* image_to_bytes (lines 86-95).  Every array the script hands over is     *)
(* uint8, so the renormalising branch of line 89 is not taken.  The PNG    *)
(* written by PIL carries the mode, the size as (width, height) and the    *)
(* samples; decoding gives the array back.                                 *)
(***************************************************************************)
image_to_bytes(image_array) ==
    [format |-> "PNG", mode |-> "L",
     size |-> <<image_array.shape[2], image_array.shape[1]>>,
     data |-> image_array.px]

\* np.array(Image.open(io.BytesIO(png)))
PngDecode(png) == Buffer(png.size[2], png.size[1], png.data)

(***************************************************************************)
(* The uploads tried.  A file is a name (stem, extension) and either       *)
(* undecodable content or a PIL image: mode, size (width, height) and the   *)
(* samples, each the tuple of its channel values.                          *)
(***************************************************************************)
Uploads ==
    { [name |-> <<"spine01", "png">>, corrupt |-> FALSE, mode |-> "L",
       size |-> <<4, 2>>,
       data |-> << <<10>>, <<10>>, <<60>>, <<60>>, <<120>>, <<120>>, <<250>>, <<250>> >>],
      [name |-> <<"scan.v2", "jpeg">>, corrupt |-> FALSE, mode |-> "RGB",
       size |-> <<2, 4>>,
       data |-> << <<255, 0, 0>>, <<0, 255, 0>>, <<0, 0, 255>>, <<200, 100, 50>>,
                   <<200, 100, 50>>, <<0, 0, 255>>, <<0, 255, 0>>, <<255, 0, 0>> >>],
      [name |-> <<"thumb", "png">>, corrupt |-> FALSE, mode |-> "L",
       size |-> <<2, 2>>, data |-> << <<0>>, <<90>>, <<90>>, <<255>> >>],
      [name |-> <<"broken", "jpg">>, corrupt |-> TRUE, mode |-> "L",
       size |-> <<0, 0>>, data |-> <<>>] }

\* os.path.splitext(uploaded_file.name)[0]  (line 147)
splitext0(name) == name[1]

\* PIL convert('L') of one sample (line 143): ITU-R 601-2 luma for RGB
Luma(mode, v) ==
    IF mode = "RGB"
    THEN (v[1] * 19595 + v[2] * 38470 + v[3] * 7471 + 32768) \div 65536
    ELSE v[1]

\* np.array(original_image.convert('L'))  (lines 143-144)
GrayArray(file) ==
    Buffer(file.size[2], file.size[1],
           [i \in DOMAIN file.data |-> Luma(file.mode, file.data[i])])

(***************************************************************************)
(* preprocess_image (lines 64-66): CLAHE with clipLimit 3.0 on 8x8 tiles.  *)
(* Its output is an 8-bit buffer of the input's shape.  The equalisation   *)
(* itself is not computed: the outputs tried are the remappings of the     *)
(* input's intensities onto the levels below.                              *)
(***************************************************************************)
ClaheLevels == {40, 120, 200}

preprocess_image(image) ==
    {Buffer(image.shape[1], image.shape[2],
            [i \in DOMAIN image.px |-> lut[image.px[i]]]) :
        lut \in [Range(image.px) -> ClaheLevels]}

(***************************************************************************)
(* The script body (lines 137-226).                                        *)
(***************************************************************************)
\* enhance_image_kmeans(processed, 8)  (line 151)
N_CLUSTERS == 8
\* alpha=0.7 in tenths (line 79)
ALPHA == 7

Keys == <<"Original", "Preprocessed", "Clustered", "Enhanced">>

\* key.lower()
Lower(key) ==
    CASE key = "Original" -> "original"
      [] key = "Preprocessed" -> "preprocessed"
      [] key = "Clustered" -> "clustered"
      [] key = "Enhanced" -> "enhanced"

\* f"{filename}_{artifact}.png"
FileName(base, artifact, ext) == <<base, "_", artifact, ".", ext>>

NoDownloads == <<>>

Init ==
    /\ pc = "start"
    /\ uploaded_file \in Uploads \cup {None}
    /\ filename = NoneStr
    /\ gray_image = None
    /\ img_array = None
    /\ processed = None
    /\ clustered = None
    /\ enhanced = None
    /\ blended = <<>>
    /\ images_dict = None
    /\ zip_file = <<>>
    /\ zi = 0
    /\ downloads = NoDownloads
    /\ shown = <<>>
    /\ error = NoneStr
    /\ stages = <<>>
    /\ args = None
    /\ resized = None

\* an exception leaves the script: nothing after the raising line runs
Raise(stage) ==
    /\ pc' = "failed"
    /\ error' = stage

\* line 226: no file uploaded
NoFile ==
    /\ pc = "start"
    /\ uploaded_file = None
    /\ pc' = "done"
    /\ shown' = <<"info">>
    /\ UNCHANGED <<uploaded_file, filename, gray_image, img_array, processed,
                   clustered, enhanced, blended, images_dict, zip_file, zi,
                   downloads, error, stages, args, resized>>

\* lines 139-147
Open ==
    /\ pc = "start"
    /\ uploaded_file # None
    /\ IF uploaded_file.corrupt
       THEN /\ Raise("open")
            /\ UNCHANGED <<gray_image, img_array, filename, stages>>
       ELSE /\ gray_image' = GrayArray(uploaded_file)
            /\ img_array' = GrayArray(uploaded_file)
            /\ filename' = splitext0(uploaded_file.name)
            /\ stages' = Append(stages, "grayscale")
            /\ pc' = "preprocess"
            /\ UNCHANGED error
    /\ UNCHANGED <<uploaded_file, processed, clustered, enhanced, blended,
                   images_dict, zip_file, zi, downloads, shown, args, resized>>

\* line 150
Preprocess ==
    /\ pc = "preprocess"
    /\ \E out \in preprocess_image(img_array) : processed' = out
    /\ stages' = Append(stages, "normalize")
    /\ pc' = "cluster"
    /\ UNCHANGED <<uploaded_file, filename, gray_image, img_array, clustered,
                   enhanced, blended, images_dict, zip_file, zi, downloads,
                   shown, error, args, resized>>

\* mutant: the clustering error is caught and the stage falls back on its input
Cluster_fallback ==
    /\ pc = "cluster"
    /\ stages' = Append(stages, "cluster")
    /\ IF KMeansRaises(processed, N_CLUSTERS)
       THEN /\ error' = "cluster"
            /\ clustered' = processed
       ELSE /\ \E seeds \in KMeansSeeds(processed.px, N_CLUSTERS) :
                 clustered' = enhance_image_kmeans(processed, N_CLUSTERS, seeds)
            /\ UNCHANGED error
    /\ pc' = "blend"
    /\ UNCHANGED <<uploaded_file, filename, gray_image, img_array, processed,
                   enhanced, blended, images_dict, zip_file, zi, downloads,
                   shown, args, resized>>

\* line 151
Cluster ==
    /\ pc = "cluster"
    /\ stages' = Append(stages, "cluster")
    /\ IF KMeansRaises(processed, N_CLUSTERS)
       THEN /\ Raise("cluster")
            /\ UNCHANGED clustered
       ELSE /\ \E seeds \in KMeansSeeds(processed.px, N_CLUSTERS) :
                 clustered' = enhance_image_kmeans(processed, N_CLUSTERS, seeds)
            /\ pc' = "blend"
            /\ UNCHANGED error
    /\ UNCHANGED <<uploaded_file, filename, gray_image, img_array, processed,
                   enhanced, blended, images_dict, zip_file, zi, downloads,
                   shown, args, resized>>

\* mutant: the blend takes the raw grayscale array instead of the CLAHE output
Blend_raw ==
    /\ pc = "blend"
    /\ blended' = blended_of(img_array, clustered, ALPHA)
    /\ enhanced' = blend_images(img_array, clustered, ALPHA)
    /\ stages' = Append(stages, "blend")
    /\ pc' = "dict"
    /\ UNCHANGED <<uploaded_file, filename, gray_image, img_array, processed,
                   clustered, images_dict, zip_file, zi, downloads, shown,
                   error, args, resized>>

\* line 152
Blend ==
    /\ pc = "blend"
    /\ blended' = blended_of(processed, clustered, ALPHA)
    /\ enhanced' = blend_images(processed, clustered, ALPHA)
    /\ stages' = Append(stages, "blend")
    /\ pc' = "dict"
    /\ UNCHANGED <<uploaded_file, filename, gray_image, img_array, processed,
                   clustered, images_dict, zip_file, zi, downloads, shown,
                   error, args, resized>>

\* mutant: two artifacts are filed under each other's key
images_dict_of_swapped(original_, processed_, clustered_, enhanced_) ==
    [Original |-> processed_, Preprocessed |-> original_,
     Clustered |-> clustered_, Enhanced |-> enhanced_]

\* lines 155-160
images_dict_of(original_, processed_, clustered_, enhanced_) ==
    [Original |-> original_, Preprocessed |-> processed_,
     Clustered |-> clustered_, Enhanced |-> enhanced_]

\* lines 155-164
BuildDict ==
    /\ pc = "dict"
    /\ images_dict' = images_dict_of(img_array, processed, clustered, enhanced)
    /\ zip_file' = <<>>
    /\ zi' = 1
    /\ pc' = "zip"
    /\ UNCHANGED <<uploaded_file, filename, gray_image, img_array, processed,
                   clustered, enhanced, blended, downloads, shown, error,
                   stages, args, resized>>

\* lines 165-167: one turn of `for key, img_array in images_dict.items()`;
\* the loop variable is the script's own name img_array
ZipWrite ==
    /\ pc = "zip"
    /\ zi <= Len(Keys)
    /\ img_array' = images_dict[Keys[zi]]
    /\ zip_file' = Append(zip_file,
                          [name |-> FileName(filename, Lower(Keys[zi]), "png"),
                           data |-> image_to_bytes(images_dict[Keys[zi]])])
    /\ zi' = zi + 1
    /\ pc' = IF zi = Len(Keys) THEN "display" ELSE "zip"
    /\ UNCHANGED <<uploaded_file, filename, gray_image, processed, clustered,
                   enhanced, blended, images_dict, downloads, shown, error,
                   stages, args, resized>>

\* lines 171-179
Display ==
    /\ pc = "display"
    /\ shown' = <<"Original", "Preprocessed (CLAHE)", "Clustered (K-Means)",
                  "Enhanced (Blended)">>
    /\ pc' = "download"
    /\ UNCHANGED <<uploaded_file, filename, gray_image, img_array, processed,
                   clustered, enhanced, blended, images_dict, zip_file, zi,
                   downloads, error, stages, args, resized>>

\* lines 182-223
DownloadButtons ==
    /\ pc = "download"
    /\ downloads' =
         [download1 |-> [file_name |-> FileName(filename, "original", "png"),
                         data |-> image_to_bytes(img_array)],
          download2 |-> [file_name |-> FileName(filename, "preprocessed", "png"),
                         data |-> image_to_bytes(processed)],
          download3 |-> [file_name |-> FileName(filename, "clustered", "png"),
                         data |-> image_to_bytes(clustered)],
          download4 |-> [file_name |-> FileName(filename, "enhanced", "png"),
                         data |-> image_to_bytes(enhanced)],
          download_zip |-> [file_name |-> FileName(filename, "images", "zip"),
                            data |-> zip_file]]
    /\ pc' = "done"
    /\ UNCHANGED <<uploaded_file, filename, gray_image, img_array, processed,
                   clustered, enhanced, blended, images_dict, zip_file, zi,
                   shown, error, stages, args, resized>>

Next ==
    \/ NoFile
    \/ Open
    \/ Preprocess
    \/ Cluster
    \/ Blend
    \/ BuildDict
    \/ ZipWrite
    \/ Display
    \/ DownloadButtons

Spec == Init /\ [][Next]_vars

(***************************************************************************)
(* SpecFn: the two parameterised stages, enhance_image_kmeans(image,       *)
(* n_clusters) and blend_images(original, clustered, alpha), applied in    *)
(* the order of lines 151-152 to a bounded buffer with bounded arguments.  *)
(***************************************************************************)
FnLevels == {0, 100, 255}

FnShapes == {s \in (1..MaxPixels) \X (1..MaxPixels) :
               s[1] <= s[2] /\ s[1] * s[2] <= MaxPixels}

FnBuffers ==
    UNION {{Buffer(s[1], s[2], px) : px \in [1..(s[1] * s[2]) -> FnLevels]} :
             s \in FnShapes}

\* cluster counts tried: below, inside and (8, the script's) inside the
\* documented range 2..12
FnClusters == {1, 2, 3, 8}

\* alpha in tenths: -0.5, 0.0, 0.7, 1.0, 1.5
FnAlphas == {-5, 0, 7, 10, 15}

InitFn ==
    /\ pc = "fn_start"
    /\ processed \in FnBuffers
    /\ args \in [n_clusters : FnClusters, alpha : FnAlphas]
    /\ uploaded_file = None
    /\ filename = NoneStr
    /\ gray_image = None
    /\ img_array = None
    /\ clustered = None
    /\ enhanced = None
    /\ blended = <<>>
    /\ images_dict = None
    /\ zip_file = <<>>
    /\ zi = 0
    /\ downloads = NoDownloads
    /\ shown = <<>>
    /\ error = NoneStr
    /\ stages = <<>>
    /\ resized = None

\* enhance_image_kmeans(image, n_clusters)  (lines 69-76)
FnCluster ==
    /\ pc = "fn_start"
    /\ stages' = Append(stages, "cluster")
    /\ IF KMeansRaises(processed, args.n_clusters)
       THEN /\ Raise("cluster")
            /\ UNCHANGED clustered
       ELSE /\ \E seeds \in KMeansSeeds(processed.px, args.n_clusters) :
                 clustered' = enhance_image_kmeans(processed, args.n_clusters, seeds)
            /\ pc' = "fn_blend"
            /\ UNCHANGED error
    /\ UNCHANGED <<uploaded_file, filename, gray_image, img_array, processed,
                   enhanced, blended, images_dict, zip_file, zi, downloads,
                   shown, args, resized>>

\* blend_images(original, clustered, alpha)  (lines 79-83)
FnBlend ==
    /\ pc = "fn_blend"
    /\ blended' = blended_of(processed, clustered, args.alpha)
    /\ enhanced' = blend_images(processed, clustered, args.alpha)
    /\ stages' = Append(stages, "blend")
    /\ pc' = "fn_done"
    /\ UNCHANGED <<uploaded_file, filename, gray_image, img_array, processed,
                   clustered, images_dict, zip_file, zi, downloads, shown,
                   error, args, resized>>

NextFn ==
    \/ FnCluster
    \/ FnBlend

SpecFn == InitFn /\ [][NextFn]_vars

(***************************************************************************)
(* SpecResize: resize_image (lines 55-61) on bounded shapes and max_size.  *)
(* Only the shape is modelled; the INTER_AREA resampling of the samples is *)
(* not.  h * scale is a double product in the code; it agrees with the     *)
(* exact quotient h * max_size / max(h, w) for every max(h, w) below 49    *)
(* (49 * (1 / 49) is the first product that falls short of its integer).   *)
(***************************************************************************)
\* mutant: the scaled dimensions are rounded to nearest instead of truncated
new_dims_rounded(h, w, max_size) ==
    <<(2 * h * max_size + Max2(h, w)) \div (2 * Max2(h, w)),
      (2 * w * max_size + Max2(h, w)) \div (2 * Max2(h, w))>>

\* lines 58-59: scale = max_size / max(h, w); int(h * scale), int(w * scale)
new_dims(h, w, max_size) ==
    <<TruncDiv(h * max_size, Max2(h, w)), TruncDiv(w * max_size, Max2(h, w))>>

\* mutant: the image is rescaled whenever its larger side differs from max_size
needs_resize_always(h, w, max_size) == Max2(h, w) # max_size

\* line 57
needs_resize(h, w, max_size) == Max2(h, w) > max_size

\* cv2.resize raises on a destination size with a side below 1
ResizeRaises(dims) == dims[1] < 1 \/ dims[2] < 1

\* lines 55-61: the returned shape, whether cv2.resize was called, whether it raised
resize_image(h, w, max_size) ==
    IF needs_resize(h, w, max_size)
    THEN LET d == new_dims(h, w, max_size)
         IN  IF ResizeRaises(d)
             THEN [called |-> TRUE, raised |-> TRUE, shape |-> <<0, 0>>]
             ELSE [called |-> TRUE, raised |-> FALSE, shape |-> d]
    ELSE [called |-> FALSE, raised |-> FALSE, shape |-> <<h, w>>]

InitResize ==
    /\ pc = "rs_start"
    /\ args \in [h : 1..MaxDim, w : 1..MaxDim, max_size : (-1)..MaxDim]
    /\ uploaded_file = None
    /\ filename = NoneStr
    /\ gray_image = None
    /\ img_array = None
    /\ processed = None
    /\ clustered = None
    /\ enhanced = None
    /\ blended = <<>>
    /\ images_dict = None
    /\ zip_file = <<>>
    /\ zi = 0
    /\ downloads = NoDownloads
    /\ shown = <<>>
    /\ error = NoneStr
    /\ stages = <<>>
    /\ resized = None

ResizeImage ==
    /\ pc = "rs_start"
    /\ resized' = resize_image(args.h, args.w, args.max_size)
    /\ stages' = Append(stages, "resize")
    /\ IF resized'.raised
       THEN Raise("resize")
       ELSE /\ pc' = "rs_done"
            /\ UNCHANGED error
    /\ UNCHANGED <<uploaded_file, filename, gray_image, img_array, processed,
                   clustered, enhanced, blended, images_dict, zip_file, zi,
                   downloads, shown, args>>

NextResize == ResizeImage

SpecResize == InitResize /\ [][NextResize]_vars

(***************************************************************************)
(* Definitions used to state the claims.                                   *)
(***************************************************************************)
IsPrefix(s, t) == Len(s) <= Len(t) /\ \A i \in 1..Len(s) : s[i] = t[i]

Distinct(buf) == Cardinality(Range(buf.px))

Uniform(buf) == Distinct(buf) = 1

\* the script ran to its end on an uploaded file
RunComplete == pc = "done" /\ uploaded_file # None

ArtifactNames == <<"original", "preprocessed", "clustered", "enhanced">>

\* the artifact each name stands for: the grayscale input, the normalizer's,
\* the clusterer's and the final output
Artifact(k) ==
    CASE k = 1 -> gray_image
      [] k = 2 -> processed
      [] k = 3 -> clustered
      [] k = 4 -> enhanced

\* a cluster count outside 2..12 or a blend alpha outside [0,1]
InvalidParameter ==
    \/ args.n_clusters \notin 2..12
    \/ args.alpha < 0
    \/ args.alpha > AlphaDen

\* the Edge Enhancer of the specification: 3x3 kernel, centre 5, 4-neighbours
\* -1, replicated border, result clipped to 0..255
Sharpen(buf) ==
    LET h == buf.shape[1]
        w == buf.shape[2]
        clamp(x, hi) == IF x < 1 THEN 1 ELSE IF x > hi THEN hi ELSE x
        at(r, c) == buf.px[(clamp(r, h) - 1) * w + clamp(c, w)]
        conv(r, c) == 5 * at(r, c) - at(r - 1, c) - at(r + 1, c)
                        - at(r, c - 1) - at(r, c + 1)
        clip(v) == IF v < 0 THEN 0 ELSE IF v > 255 THEN 255 ELSE v
    IN  Buffer(h, w, [i \in 1..(h * w) |->
                        clip(conv(((i - 1) \div w) + 1, ((i - 1) % w) + 1))])

-----------------------------------------------------------------------------
\* C1 (as claimed): after a successful run each individual export
\* "{basename}_{artifact}.png" carries the encoding of that artifact's own
\* buffer; in particular "{basename}_original.png" encodes the grayscale input.
C1_ExportsEncodeOwnArtifact ==
    RunComplete =>
       /\ downloads.download1.file_name = FileName(filename, "original", "png")
       /\ PngDecode(downloads.download1.data) = gray_image
       /\ PngDecode(downloads.download2.data) = processed
       /\ PngDecode(downloads.download3.data) = clustered
       /\ PngDecode(downloads.download4.data) = enhanced

-----------------------------------------------------------------------------
-----------------------------------------------------------------------------
-----------------------------------------------------------------------------
\* C4 (as claimed): a parameter set with clusterCount outside 2..12 or
\* blendAlpha outside [0,1] is rejected before any stage runs: no stage has
\* started and no artifact exists for it.
C4_InvalidParameterRejected ==
    InvalidParameter =>
       /\ stages = <<>>
       /\ clustered = None
       /\ enhanced = None

-----------------------------------------------------------------------------
\* C7: blend_images with alpha = 1.0 has pre-rescale samples exactly equal to
\* the clustered buffer's, with alpha = 0.0 exactly equal to the normalized
\* buffer's; the result is that pre-rescale buffer mapped linearly onto
\* [0,255] (all 0 when it is flat) and cut to 8 bits.
C7_BlendBoundary ==
    pc = "fn_done" =>
       LET lo == RMinOf(blended)
           hi == RMaxOf(blended)
           n  == NPixels(processed)
       IN  /\ Len(blended) = n
           /\ args.alpha = AlphaDen =>
                \A i \in 1..n : blended[i][1] = blended[i][2] * clustered.px[i]
           /\ args.alpha = 0 =>
                \A i \in 1..n : blended[i][1] = blended[i][2] * processed.px[i]
           /\ enhanced.shape = processed.shape
           /\ \A i \in 1..n :
                /\ enhanced.px[i] \in 0..255
                /\ REq(lo, hi) => enhanced.px[i] = 0
                /\ ~REq(lo, hi) =>
                     \* enhanced = floor(255 * (b - lo) / (hi - lo)), all over 10
                     LET num == 255 * (blended[i][1] - lo[1])
                         den == hi[1] - lo[1]
                     IN  /\ enhanced.px[i] * den <= num
                         /\ num < (enhanced.px[i] + 1) * den

\* a blend with alpha = 1.0 of two buffers that differ
C7_Witness ==
    /\ pc = "fn_done"
    /\ args.alpha = AlphaDen
    /\ clustered.px # processed.px
    /\ Distinct(processed) = 3

-----------------------------------------------------------------------------
\* C8: the run is all-or-nothing: a failing stage ends the run with its
\* error and leaves no dict, archive entry, display or export; these exist
\* only once every stage has completed without error.
C8_AllOrNothing ==
    /\ (error # NoneStr =>
          /\ pc = "failed"
          /\ ~ENABLED Next
          /\ images_dict = None
          /\ zip_file = <<>>
          /\ downloads = NoDownloads
          /\ shown = <<>>)
    /\ ((images_dict # None \/ zip_file # <<>> \/ downloads # NoDownloads) =>
          /\ error = NoneStr
          /\ stages = <<"grayscale", "normalize", "cluster", "blend">>
          /\ processed # None
          /\ clustered # None
          /\ enhanced # None)

\* the clusterer failed after the normalizer had produced its output
C8_Witness ==
    /\ pc = "failed"
    /\ error = "cluster"
    /\ processed # None

-----------------------------------------------------------------------------
\* C9 (as claimed): on a uniform input the clusterer raises no error for any
\* requested cluster count and returns a uniform buffer of the input's shape.
C9_UniformNeverRaises ==
    (pc \in {"fn_blend", "fn_done", "failed"} /\ Uniform(processed)) =>
       /\ error = NoneStr
       /\ clustered # None
       /\ clustered.shape = processed.shape
       /\ Uniform(clustered)

\* C9 (amended): on a uniform input with at least as many pixels as the
\* requested cluster count, the clusterer raises no error and returns a
\* buffer of the input's shape holding a single value, the rescale with
\* equal minimum and maximum included.
C9_UniformWithEnoughPixels ==
    (/\ pc \in {"fn_blend", "fn_done", "failed"}
     /\ Uniform(processed)
     /\ NPixels(processed) >= args.n_clusters) =>
       /\ error = NoneStr
       /\ clustered # None
       /\ clustered.shape = processed.shape
       /\ Uniform(clustered)

\* a uniform 4-pixel buffer clustered with 3 clusters
C9_Witness ==
    /\ pc = "fn_blend"
    /\ Uniform(processed)
    /\ NPixels(processed) = 4
    /\ args.n_clusters = 3
    /\ clustered # None

-----------------------------------------------------------------------------
\* C10: the clustered artifact holds at most K distinct values, and exactly 2
\* for K = 2 on an image of exactly two distinct intensities.
C10_AtMostKValues ==
    clustered # None =>
       /\ Distinct(clustered) <= args.n_clusters
       /\ (args.n_clusters = 2 /\ Distinct(processed) = 2) => Distinct(clustered) = 2

\* K = 2 on three distinct intensities: two of them fall into one cluster
C10_Witness ==
    /\ pc = "fn_blend"
    /\ args.n_clusters = 2
    /\ Distinct(processed) = 3
    /\ Distinct(clustered) = 2

-----------------------------------------------------------------------------
-----------------------------------------------------------------------------
\* C6 (as claimed): when max(H,W) > M each output side is the input side
\* times M / max(H,W), rounded to the nearest integer.
C6_DimsRounded ==
    (pc = "rs_done" /\ resized.called) =>
       resized.shape = new_dims_rounded(args.h, args.w, args.max_size)

\* C6 (amended): when max(H,W) > M >= 1 and the resize succeeds, each output
\* side is the input side times M / max(H,W) with the fraction cut off
\* (rounded down), not rounded to nearest.
C6_DimsTruncated ==
    (pc = "rs_done" /\ resized.called) =>
       LET mx == Max2(args.h, args.w)
       IN  /\ resized.shape[1] * mx <= args.h * args.max_size
           /\ args.h * args.max_size < (resized.shape[1] + 1) * mx
           /\ resized.shape[2] * mx <= args.w * args.max_size
           /\ args.w * args.max_size < (resized.shape[2] + 1) * mx

\* 3x5 with max_size 3: 3 * 3/5 = 1.8 is cut to 1 where rounding gives 2
C6_Witness ==
    /\ pc = "rs_done"
    /\ resized.called
    /\ args = [h |-> 3, w |-> 5, max_size |-> 3]
    /\ resized.shape = <<1, 3>>

====
